---- MODULE Spec2Model ----
(***************************************************************************)
(* Forest Inference Library (FIL): variant dispatch, shared-memory plan,   *)
(* dense forest addressing (cpp/src/fil/common.cuh) and the FIL benchmark  *)
(* fixture (runBenchmark / deallocateBuffers).                             *)
(*                                                                         *)
(* Four specifications share the variables; each leaves the variables of   *)
(* the other three at their idle values:                                   *)
(*   SpecDispatch  dispatch_on_FIL_template_params on one predict_params   *)
(*   SpecPlan      the execution plan builder and cols_shmem_size          *)
(*   SpecDense     dense_storage / dense_tree indexing                     *)
(*   SpecBench     one benchmark run: runBenchmark, deallocateBuffers      *)
(***************************************************************************)
EXTENDS Integers, Sequences, FiniteSets, TLC

VARIABLES
  params,      \* the caller's predict_params object
  storage,     \* the storage_type template argument of the dispatch
  runs,        \* sequence of Func<C,L,N>::run<storage_type> invocations
  outcome,     \* "none" | "ok" | "assert_n_items" | "assert_leaf_algo"
  ssp,         \* the shmem_size_params the plan builder works on
  accBytes,    \* leaf-algorithm specific accumulator bytes of the footprint
  planStatus,  \* "unbuilt" | "ok" | "config_error"
  colsBytes,   \* last call of cols_shmem_size(): object and bytes returned
  dense,       \* the dense_storage object (layout fields)
  access,      \* last dense_storage[i][k] access: [i, k, offset], or NoAccess
  pc,          \* position of the benchmark fixture
  bench,       \* benchmark inputs: rowMajor, nclasses, predict_repetitions
  loopVars,    \* threads_per_tree, i, iterations left of loopOnState
  forest,      \* FIL::forest handle (0 = not yet assigned)
  constructed, \* number of forests produced by from_treelite (ids 1..n)
  freed,       \* sequence of handles passed to ML::fil::free
  errorMsg,    \* message given to state.SkipWithError, "" if none
  afterError,  \* device operations issued after the error was reported
  badPredict   \* TRUE once predict ran on a freed or never-built forest

vars == <<params, storage, runs, outcome, ssp, accBytes, planStatus,
          colsBytes, dense, access, pc, bench, loopVars, forest,
          constructed, freed, errorMsg, afterError, badPredict>>

dispatchVars == <<params, storage, runs, outcome>>
planVars     == <<ssp, accBytes, planStatus, colsBytes>>
denseVars    == <<dense, access>>
benchVars    == <<pc, bench, loopVars, forest, constructed, freed, errorMsg,
                  afterError, badPredict>>

----------------------------------------------------------------------------
(* Bounds of the model *)

MaxClasses == 258      \* num_classes ranges over 1..MaxClasses
MaxNItems  == 5        \* n_items ranges over 0..MaxNItems
MaxCols    == 1        \* num_cols of a dispatched plan ranges over 0..MaxCols

(* Program constants *)

FIL_TPB == 256         \* CUDA threads per block used by FIL kernels
INT_MAX == 2147483647

FLOAT_UNARY_BINARY           == "FLOAT_UNARY_BINARY"
CATEGORICAL_LEAF             == "CATEGORICAL_LEAF"
GROVE_PER_CLASS              == "GROVE_PER_CLASS"
GROVE_PER_CLASS_FEW_CLASSES  == "GROVE_PER_CLASS_FEW_CLASSES"
GROVE_PER_CLASS_MANY_CLASSES == "GROVE_PER_CLASS_MANY_CLASSES"

\* every enumerator of leaf_algo_t
leaf_algo_t == {FLOAT_UNARY_BINARY, CATEGORICAL_LEAF, GROVE_PER_CLASS,
                GROVE_PER_CLASS_FEW_CLASSES, GROVE_PER_CLASS_MANY_CLASSES}

\* the storage types the dispatch is instantiated with
storage_types == {"dense_storage", "sparse_storage16", "sparse_storage8"}

----------------------------------------------------------------------------
(* struct shmem_size_params: the fields and their default initialisers *)

shmem_size_params ==
  [num_classes   |-> 1,
   leaf_algo     |-> FLOAT_UNARY_BINARY,
   num_cols      |-> 0,
   predict_proba |-> FALSE,
   cols_in_shmem |-> TRUE,
   n_items       |-> 0,
   max_shm       |-> 0,
   blockdim_x    |-> 0,
   shm_sz        |-> INT_MAX]

----------------------------------------------------------------------------
(* namespace dispatch *)

\* Func<cols_in_shmem, leaf_algo, n_items>::run<storage_type>(params, args...)
dispatch_final(st, C, L, N, p) ==
  [outcome |-> "ok",
   runs    |-> << [storage_type  |-> st,
                   cols_in_shmem |-> C,
                   leaf_algo     |-> L,
                   n_items       |-> N,
                   params        |-> p] >>]

\* a dispatch_on_n_items whose switch lacks case 4
dispatch_on_n_items_no_case4(st, C, L, p) ==
  CASE p.n_items = 1 -> dispatch_final(st, C, L, 1, p)
    [] p.n_items = 2 -> dispatch_final(st, C, L, 2, p)
    [] p.n_items = 3 -> dispatch_final(st, C, L, 3, p)
    [] OTHER         -> [outcome |-> "assert_n_items", runs |-> <<>>]

\* a dispatch_on_n_items whose case 3 instantiates the variant for 4 items
dispatch_on_n_items_case3_as4(st, C, L, p) ==
  CASE p.n_items = 1 -> dispatch_final(st, C, L, 1, p)
    [] p.n_items = 2 -> dispatch_final(st, C, L, 2, p)
    [] p.n_items = 3 -> dispatch_final(st, C, L, 4, p)
    [] p.n_items = 4 -> dispatch_final(st, C, L, 4, p)
    [] OTHER         -> [outcome |-> "assert_n_items", runs |-> <<>>]

\* switch (params.n_items), default: ASSERT(false, ...)
dispatch_on_n_items(st, C, L, p) ==
  CASE p.n_items = 1 -> dispatch_final(st, C, L, 1, p)
    [] p.n_items = 2 -> dispatch_final(st, C, L, 2, p)
    [] p.n_items = 3 -> dispatch_final(st, C, L, 3, p)
    [] p.n_items = 4 -> dispatch_final(st, C, L, 4, p)
    [] OTHER         -> [outcome |-> "assert_n_items", runs |-> <<>>]

\* a dispatch_on_leaf_algo whose default case runs the unary variant
dispatch_on_leaf_algo_default_unary(st, C, p) ==
  CASE p.leaf_algo = FLOAT_UNARY_BINARY ->
         dispatch_on_n_items(st, C, FLOAT_UNARY_BINARY,
                             [p EXCEPT !.blockdim_x = FIL_TPB])
    [] p.leaf_algo = GROVE_PER_CLASS ->
         IF p.num_classes > FIL_TPB
           THEN dispatch_on_n_items(st, C, GROVE_PER_CLASS_MANY_CLASSES,
                  [p EXCEPT !.leaf_algo  = GROVE_PER_CLASS_MANY_CLASSES,
                            !.blockdim_x = FIL_TPB])
           ELSE dispatch_on_n_items(st, C, GROVE_PER_CLASS_FEW_CLASSES,
                  [p EXCEPT !.leaf_algo  = GROVE_PER_CLASS_FEW_CLASSES,
                            !.blockdim_x =
                               FIL_TPB - (FIL_TPB % p.num_classes)])
    [] p.leaf_algo = CATEGORICAL_LEAF ->
         dispatch_on_n_items(st, C, CATEGORICAL_LEAF,
                             [p EXCEPT !.blockdim_x = FIL_TPB])
    [] OTHER -> dispatch_on_n_items(st, C, FLOAT_UNARY_BINARY,
                                     [p EXCEPT !.blockdim_x = FIL_TPB])

\* a dispatch_on_leaf_algo that gives few-class grove the full block
dispatch_on_leaf_algo_full_block(st, C, p) ==
  CASE p.leaf_algo = FLOAT_UNARY_BINARY ->
         dispatch_on_n_items(st, C, FLOAT_UNARY_BINARY,
                             [p EXCEPT !.blockdim_x = FIL_TPB])
    [] p.leaf_algo = GROVE_PER_CLASS ->
         IF p.num_classes > FIL_TPB
           THEN dispatch_on_n_items(st, C, GROVE_PER_CLASS_MANY_CLASSES,
                  [p EXCEPT !.leaf_algo  = GROVE_PER_CLASS_MANY_CLASSES,
                            !.blockdim_x = FIL_TPB])
           ELSE dispatch_on_n_items(st, C, GROVE_PER_CLASS_FEW_CLASSES,
                  [p EXCEPT !.leaf_algo  = GROVE_PER_CLASS_FEW_CLASSES,
                            !.blockdim_x =
                               FIL_TPB])
    [] p.leaf_algo = CATEGORICAL_LEAF ->
         dispatch_on_n_items(st, C, CATEGORICAL_LEAF,
                             [p EXCEPT !.blockdim_x = FIL_TPB])
    [] OTHER -> [outcome |-> "assert_leaf_algo", runs |-> <<>>]

\* a dispatch_on_leaf_algo that splits the grove at num_classes >= FIL_TPB
dispatch_on_leaf_algo_split_ge(st, C, p) ==
  CASE p.leaf_algo = FLOAT_UNARY_BINARY ->
         dispatch_on_n_items(st, C, FLOAT_UNARY_BINARY,
                             [p EXCEPT !.blockdim_x = FIL_TPB])
    [] p.leaf_algo = GROVE_PER_CLASS ->
         IF p.num_classes >= FIL_TPB
           THEN dispatch_on_n_items(st, C, GROVE_PER_CLASS_MANY_CLASSES,
                  [p EXCEPT !.leaf_algo  = GROVE_PER_CLASS_MANY_CLASSES,
                            !.blockdim_x = FIL_TPB])
           ELSE dispatch_on_n_items(st, C, GROVE_PER_CLASS_FEW_CLASSES,
                  [p EXCEPT !.leaf_algo  = GROVE_PER_CLASS_FEW_CLASSES,
                            !.blockdim_x =
                               FIL_TPB - (FIL_TPB % p.num_classes)])
    [] p.leaf_algo = CATEGORICAL_LEAF ->
         dispatch_on_n_items(st, C, CATEGORICAL_LEAF,
                             [p EXCEPT !.blockdim_x = FIL_TPB])
    [] OTHER -> [outcome |-> "assert_leaf_algo", runs |-> <<>>]

\* switch (params.leaf_algo), default: ASSERT(false, ...)
dispatch_on_leaf_algo(st, C, p) ==
  CASE p.leaf_algo = FLOAT_UNARY_BINARY ->
         dispatch_on_n_items(st, C, FLOAT_UNARY_BINARY,
                             [p EXCEPT !.blockdim_x = FIL_TPB])
    [] p.leaf_algo = GROVE_PER_CLASS ->
         IF p.num_classes > FIL_TPB
           THEN dispatch_on_n_items(st, C, GROVE_PER_CLASS_MANY_CLASSES,
                  [p EXCEPT !.leaf_algo  = GROVE_PER_CLASS_MANY_CLASSES,
                            !.blockdim_x = FIL_TPB])
           ELSE dispatch_on_n_items(st, C, GROVE_PER_CLASS_FEW_CLASSES,
                  [p EXCEPT !.leaf_algo  = GROVE_PER_CLASS_FEW_CLASSES,
                            !.blockdim_x =
                               FIL_TPB - (FIL_TPB % p.num_classes)])
    [] p.leaf_algo = CATEGORICAL_LEAF ->
         dispatch_on_n_items(st, C, CATEGORICAL_LEAF,
                             [p EXCEPT !.blockdim_x = FIL_TPB])
    [] OTHER -> [outcome |-> "assert_leaf_algo", runs |-> <<>>]

dispatch_on_cols_in_shmem(st, p) ==
  IF p.cols_in_shmem
    THEN dispatch_on_leaf_algo(st, TRUE, p)
    ELSE dispatch_on_leaf_algo(st, FALSE, p)

dispatch_on_FIL_template_params(st, p) == dispatch_on_cols_in_shmem(st, p)

----------------------------------------------------------------------------
(* SpecDispatch *)

\* the predict_params a caller can hand to the dispatcher; num_classes is a
\* class count (default 1), so it is positive and FIL_TPB % num_classes is
\* defined; n_items 0 and MaxNItems are the values outside 1..4
DispatchInputs ==
  [num_classes   : 1..MaxClasses,
   leaf_algo     : leaf_algo_t,
   num_cols      : 0..MaxCols,
   predict_proba : BOOLEAN,
   cols_in_shmem : BOOLEAN,
   n_items       : 0..MaxNItems,
   max_shm       : {0},
   blockdim_x    : {0},
   shm_sz        : {INT_MAX}]

IdleDispatch ==
  /\ params = shmem_size_params
  /\ storage = "dense_storage"
  /\ runs = <<>>
  /\ outcome = "none"

\* one call dispatch_on_FIL_template_params<Func, storage_type>(params, ...)
Dispatch ==
  /\ outcome = "none"
  /\ LET r == dispatch_on_FIL_template_params(storage, params)
     IN  /\ runs' = runs \o r.runs
         /\ outcome' = r.outcome
  /\ UNCHANGED <<params, storage>>
  /\ UNCHANGED <<planVars, denseVars, benchVars>>

----------------------------------------------------------------------------
(* shmem_size_params::cols_shmem_size and the execution plan builder *)

MaxPlanCols == 5       \* num_cols of a plan ranges over 0..MaxPlanCols
MaxShm      == 48      \* max_shm ranges over 0..MaxShm (bytes)
MaxAcc      == 8       \* accumulator bytes range over 0..MaxAcc

SIZEOF_FLOAT == 4
MAX_N_ITEMS == 4       \* cap on rows per thread

\* a cols_shmem_size that forgets the rows-per-thread factor
cols_shmem_size_no_items(s) ==
  IF s.cols_in_shmem THEN SIZEOF_FLOAT * s.num_cols ELSE 0

\* a cols_shmem_size that sizes the cache for one row less than n_items
cols_shmem_size_one_less(s) ==
  IF s.cols_in_shmem
    THEN SIZEOF_FLOAT * s.num_cols * (s.n_items - 1)
    ELSE 0

\* size_t cols_shmem_size(); num_cols and n_items are non-negative ints, so
\* the 64-bit size_t product cannot wrap
cols_shmem_size(s) ==
  IF s.cols_in_shmem
    THEN SIZEOF_FLOAT * s.num_cols * s.n_items
    ELSE 0

\* footprint of a candidate: column cache plus accumulator buffer
smem_footprint(s, acc) == cols_shmem_size(s) + acc

fits_shmem(s, acc) == smem_footprint(s, acc) <= s.max_shm

candidate(s, c, n) == [s EXCEPT !.cols_in_shmem = c, !.n_items = n]

\* decreasing search from n down to 1 for a cached candidate that fits;
\* 0 when none does
RECURSIVE search_n_items(_, _, _)
search_n_items(s, acc, n) ==
  IF n = 0 THEN 0
  ELSE IF fits_shmem(candidate(s, TRUE, n), acc) THEN n
  ELSE search_n_items(s, acc, n - 1)

\* plan = build(forest_metadata, column_count, device_shared_mem_limit)
build_plan(s, acc) ==
  LET n == search_n_items(s, acc, MAX_N_ITEMS)
      cached   == candidate(s, TRUE, n)
      uncached == candidate(s, FALSE, MAX_N_ITEMS)
  IN  IF n > 0
        THEN [status |-> "ok",
              ssp |-> [cached EXCEPT !.shm_sz = smem_footprint(cached, acc)]]
      ELSE IF fits_shmem(uncached, acc)
        THEN [status |-> "ok",
              ssp |-> [uncached EXCEPT
                         !.shm_sz = smem_footprint(uncached, acc)]]
      ELSE [status |-> "config_error", ssp |-> s]

NoQuery == [asked |-> FALSE, ssp |-> shmem_size_params, bytes |-> 0]

IdlePlan ==
  /\ ssp = shmem_size_params
  /\ accBytes = 0
  /\ planStatus = "unbuilt"
  /\ colsBytes = NoQuery

\* the builder runs once on the forest's shmem_size_params
BuildPlan ==
  /\ planStatus = "unbuilt"
  /\ LET r == build_plan(ssp, accBytes)
     IN  /\ ssp' = r.ssp
         /\ planStatus' = r.status
  /\ UNCHANGED <<accBytes, colsBytes>>
  /\ UNCHANGED <<dispatchVars, denseVars, benchVars>>

\* a call ssp.cols_shmem_size()
QueryColsShmem ==
  /\ colsBytes # [asked |-> TRUE, ssp |-> ssp, bytes |-> cols_shmem_size(ssp)]
  /\ colsBytes' = [asked |-> TRUE, ssp |-> ssp, bytes |-> cols_shmem_size(ssp)]
  /\ UNCHANGED <<ssp, accBytes, planStatus>>
  /\ UNCHANGED <<dispatchVars, denseVars, benchVars>>

----------------------------------------------------------------------------
(* dense_storage / dense_tree *)

MaxTrees == 3          \* num_trees ranges over 1..MaxTrees
MaxDepth == 3          \* depth ranges over 0..MaxDepth

\* int arithmetic: with num_trees <= MaxTrees and depth <= MaxDepth every
\* product and shift below stays far inside the 32-bit int range

\* a dense_tree operator[] that adds the pitch instead of scaling by it
dense_tree_index_added(t, i) == t.nodes + (i + t.node_pitch)

\* int tree_num_nodes(int depth)
tree_num_nodes(depth) == (2 ^ (depth + 1)) - 1

\* int forest_num_nodes(int num_trees, int depth)
forest_num_nodes(num_trees, depth) == num_trees * tree_num_nodes(depth)

\* dense_tree::operator[](int i): nodes_[i * node_pitch_], as an offset
dense_tree_index(t, i) == t.nodes + (i * t.node_pitch)

\* dense_storage::operator[](int i): dense_tree(nodes_ + i * tree_stride_, node_pitch_)
dense_storage_index(d, i) ==
  [nodes |-> d.nodes + (i * d.tree_stride), node_pitch |-> d.node_pitch]

\* dense_storage(nodes, num_trees, tree_stride, node_pitch), nodes at offset 0
dense_storage(num_trees, tree_stride, node_pitch) ==
  [nodes |-> 0, num_trees |-> num_trees, tree_stride |-> tree_stride,
   node_pitch |-> node_pitch]

\* the two documented layouts of a forest of num_trees trees of one depth
DenseLayouts ==
  { [depth |-> dp, layout |-> "contiguous",
     st |-> dense_storage(n, tree_num_nodes(dp), 1)]
      : n \in 1..MaxTrees, dp \in 0..MaxDepth }
  \cup
  { [depth |-> dp, layout |-> "interleaved",
     st |-> dense_storage(n, 1, n)]
      : n \in 1..MaxTrees, dp \in 0..MaxDepth }

NoAccess == [done |-> FALSE, i |-> 0, k |-> 0, offset |-> 0]

IdleDense ==
  /\ dense = [depth |-> 0, layout |-> "contiguous",
              st |-> dense_storage(1, 1, 1)]
  /\ access = NoAccess

\* the node offset dense_storage[i][k] resolves to
NodeOffset(d, i, k) == dense_tree_index(dense_storage_index(d, i), k)

\* one read of dense_storage[i][k] with i, k inside the forest
Access ==
  /\ \E i \in 0..(dense.st.num_trees - 1),
        k \in 0..(tree_num_nodes(dense.depth) - 1) :
       /\ access # [done |-> TRUE, i |-> i, k |-> k,
                    offset |-> NodeOffset(dense.st, i, k)]
       /\ access' = [done |-> TRUE, i |-> i, k |-> k,
                     offset |-> NodeOffset(dense.st, i, k)]
  /\ UNCHANGED dense
  /\ UNCHANGED <<dispatchVars, planVars, benchVars>>

----------------------------------------------------------------------------
(* class FIL : RegressionFixture<float>, one benchmark run *)

MaxReps  == 2          \* predict_repetitions ranges over 0..MaxReps
MaxIters == 2          \* iterations the benchmark state asks for: 0..MaxIters

MAX_THREADS_PER_TREE == 32
ROW_MAJOR_ERROR == "FIL only supports row-major inputs"

IdleBench ==
  /\ pc = "idle"
  /\ bench = [rowMajor |-> TRUE, nclasses |-> 1, predict_repetitions |-> 0]
  /\ loopVars = [threads_per_tree |-> 0, i |-> 0, iterations |-> 0]
  /\ forest = 0
  /\ constructed = 0
  /\ freed = <<>>
  /\ errorMsg = ""
  /\ afterError = {}
  /\ badPredict = FALSE

\* the handles passed to ML::fil::free so far
FreedSet == {freed[j] : j \in 1..Len(freed)}

\* device operations recorded once the error has been reported
Issue(ops) == IF errorMsg # "" THEN afterError \cup ops ELSE afterError

\* ML::fil::predict(handle, forest, ...) on the current handle
PredictIsBad == forest = 0 \/ forest \in FreedSet

\* if (!params.rowMajor) state.SkipWithError(...); execution continues
CheckRowMajor ==
  /\ pc = "check_rowMajor"
  /\ errorMsg' = IF ~bench.rowMajor THEN ROW_MAJOR_ERROR ELSE errorMsg
  /\ pc' = "to_classification"
  /\ UNCHANGED <<bench, loopVars, forest, constructed, freed, afterError,
                 badPredict>>
  /\ UNCHANGED <<dispatchVars, planVars, denseVars>>

\* if (params.nclasses > 1) regression_to_classification(...)
RegressionToClassification ==
  /\ pc = "to_classification"
  /\ afterError' = IF bench.nclasses > 1
                     THEN Issue({"regression_to_classification"})
                     ELSE afterError
  /\ pc' = "fit"
  /\ UNCHANGED <<bench, loopVars, forest, constructed, freed, errorMsg,
                 badPredict>>
  /\ UNCHANGED <<dispatchVars, planVars, denseVars>>

\* fit(*handle, mPtr, ...); cudaStreamSynchronize; build_treelite_forest;
\* tl_params initialised; for-init threads_per_tree = 1
FitModel ==
  /\ pc = "fit"
  /\ afterError' = Issue({"fit"})
  /\ loopVars' = [loopVars EXCEPT !.threads_per_tree = 1]
  /\ pc' = "sweep"
  /\ UNCHANGED <<bench, forest, constructed, freed, errorMsg, badPredict>>
  /\ UNCHANGED <<dispatchVars, planVars, denseVars>>

\* loop test threads_per_tree <= 32, then from_treelite(*handle, &forest, ...)
\* overwrites the forest handle with a newly built forest
FromTreelite ==
  /\ pc = "sweep"
  /\ loopVars.threads_per_tree <= MAX_THREADS_PER_TREE
  /\ constructed' = constructed + 1
  /\ forest' = constructed + 1
  /\ afterError' = Issue({"from_treelite"})
  /\ loopVars' = [loopVars EXCEPT !.i = 1]
  /\ pc' = "warmup"
  /\ UNCHANGED <<bench, freed, errorMsg, badPredict>>
  /\ UNCHANGED <<dispatchVars, planVars, denseVars>>

\* for (int i = 1; i < predict_repetitions; ++i) predict(...)
WarmupPredict ==
  /\ pc = "warmup"
  /\ loopVars.i < bench.predict_repetitions
  /\ badPredict' = (badPredict \/ PredictIsBad)
  /\ afterError' = Issue({"predict"})
  /\ loopVars' = [loopVars EXCEPT !.i = @ + 1]
  /\ UNCHANGED <<pc, bench, forest, constructed, freed, errorMsg>>
  /\ UNCHANGED <<dispatchVars, planVars, denseVars>>

\* warm-up loop exit; cudaEventRecord(start); timed loop starts at i = 0
WarmupDone ==
  /\ pc = "warmup"
  /\ ~(loopVars.i < bench.predict_repetitions)
  /\ loopVars' = [loopVars EXCEPT !.i = 0]
  /\ pc' = "timed"
  /\ UNCHANGED <<bench, forest, constructed, freed, errorMsg, afterError,
                 badPredict>>
  /\ UNCHANGED <<dispatchVars, planVars, denseVars>>

\* for (int i = 0; i < predict_repetitions; i++) predict(...)
TimedPredict ==
  /\ pc = "timed"
  /\ loopVars.i < bench.predict_repetitions
  /\ badPredict' = (badPredict \/ PredictIsBad)
  /\ afterError' = Issue({"predict"})
  /\ loopVars' = [loopVars EXCEPT !.i = @ + 1]
  /\ UNCHANGED <<pc, bench, forest, constructed, freed, errorMsg>>
  /\ UNCHANGED <<dispatchVars, planVars, denseVars>>

\* timed loop exit; timing printed; threads_per_tree *= 2
TimedDone ==
  /\ pc = "timed"
  /\ ~(loopVars.i < bench.predict_repetitions)
  /\ loopVars' = [loopVars EXCEPT !.threads_per_tree = @ * 2]
  /\ pc' = "sweep"
  /\ UNCHANGED <<bench, forest, constructed, freed, errorMsg, afterError,
                 badPredict>>
  /\ UNCHANGED <<dispatchVars, planVars, denseVars>>

\* sweep exit: threads_per_tree > 32
SweepDone ==
  /\ pc = "sweep"
  /\ ~(loopVars.threads_per_tree <= MAX_THREADS_PER_TREE)
  /\ pc' = "loopOnState"
  /\ UNCHANGED <<bench, loopVars, forest, constructed, freed, errorMsg,
                 afterError, badPredict>>
  /\ UNCHANGED <<dispatchVars, planVars, denseVars>>

\* one iteration of loopOnState: the lambda issues predict_repetitions
\* predicts; a state that was skipped with an error runs no iteration
LoopOnStateIteration ==
  /\ pc = "loopOnState"
  /\ errorMsg = ""
  /\ loopVars.iterations > 0
  /\ loopVars' = [loopVars EXCEPT !.iterations = @ - 1]
  /\ badPredict' = (badPredict \/
                      (bench.predict_repetitions > 0 /\ PredictIsBad))
  /\ afterError' = IF bench.predict_repetitions > 0
                     THEN Issue({"predict"}) ELSE afterError
  /\ UNCHANGED <<pc, bench, forest, constructed, freed, errorMsg>>
  /\ UNCHANGED <<dispatchVars, planVars, denseVars>>

\* loopOnState returns, runBenchmark returns
LoopOnStateDone ==
  /\ pc = "loopOnState"
  /\ (errorMsg # "" \/ loopVars.iterations = 0)
  /\ pc' = "deallocate"
  /\ UNCHANGED <<bench, loopVars, forest, constructed, freed, errorMsg,
                 afterError, badPredict>>
  /\ UNCHANGED <<dispatchVars, planVars, denseVars>>

\* deallocateBuffers: ML::fil::free(*handle, forest)
DeallocateBuffers ==
  /\ pc = "deallocate"
  /\ freed' = Append(freed, forest)
  /\ pc' = "done"
  /\ UNCHANGED <<bench, loopVars, forest, constructed, errorMsg, afterError,
                 badPredict>>
  /\ UNCHANGED <<dispatchVars, planVars, denseVars>>

----------------------------------------------------------------------------
(* The specifications *)

InitDispatch ==
  /\ params \in DispatchInputs
  /\ storage \in storage_types
  /\ runs = <<>>
  /\ outcome = "none"
  /\ IdlePlan /\ IdleDense /\ IdleBench

NextDispatch == Dispatch

SpecDispatch == InitDispatch /\ [][NextDispatch]_vars

InitPlan ==
  /\ ssp \in {[shmem_size_params EXCEPT !.num_cols = c, !.max_shm = m]
                : c \in 0..MaxPlanCols, m \in 0..MaxShm}
  /\ accBytes \in 0..MaxAcc
  /\ planStatus = "unbuilt"
  /\ colsBytes = NoQuery
  /\ IdleDispatch /\ IdleDense /\ IdleBench

NextPlan == BuildPlan \/ QueryColsShmem

SpecPlan == InitPlan /\ [][NextPlan]_vars

InitDense ==
  /\ dense \in DenseLayouts
  /\ access = NoAccess
  /\ IdleDispatch /\ IdlePlan /\ IdleBench

NextDense == Access

SpecDense == InitDense /\ [][NextDense]_vars

InitBench ==
  /\ pc = "check_rowMajor"
  /\ bench \in [rowMajor : BOOLEAN, nclasses : 1..2,
                predict_repetitions : 0..MaxReps]
  /\ loopVars \in [threads_per_tree : {0}, i : {0}, iterations : 0..MaxIters]
  /\ forest = 0
  /\ constructed = 0
  /\ freed = <<>>
  /\ errorMsg = ""
  /\ afterError = {}
  /\ badPredict = FALSE
  /\ IdleDispatch /\ IdlePlan /\ IdleDense

NextBench ==
  \/ CheckRowMajor
  \/ RegressionToClassification
  \/ FitModel
  \/ FromTreelite
  \/ WarmupPredict
  \/ WarmupDone
  \/ TimedPredict
  \/ TimedDone
  \/ SweepDone
  \/ LoopOnStateIteration
  \/ LoopOnStateDone
  \/ DeallocateBuffers

SpecBench == InitBench /\ [][NextBench]_vars

----------------------------------------------------------------------------
(* Properties of the dispatch (SpecDispatch) *)

ValidLeafAlgos == {FLOAT_UNARY_BINARY, GROVE_PER_CLASS, CATEGORICAL_LEAF}

ValidTuple == params.leaf_algo \in ValidLeafAlgos /\ params.n_items \in 1..4

Dispatched == outcome # "none"

AssertionFailed == outcome \in {"assert_n_items", "assert_leaf_algo"}

\* C1: the dispatch is closed and total: for every storage type, caching
\* flag, leaf_algo in {FLOAT_UNARY_BINARY, GROVE_PER_CLASS, CATEGORICAL_LEAF},
\* n_items in 1..4 and num_classes >= 1, a finished call has invoked exactly
\* one variant's run exactly once and no assertion has fired.
C1_TotalDispatch ==
  (Dispatched /\ ValidTuple /\ params.num_classes >= 1)
    => (outcome = "ok" /\ Len(runs) = 1)

C1_Witness ==
  /\ outcome = "ok" /\ Len(runs) = 1
  /\ params.leaf_algo = GROVE_PER_CLASS
  /\ params.n_items = 4
  /\ storage = "sparse_storage16"
  /\ ~params.cols_in_shmem

\* C2: an invalid tuple (n_items outside 1..4, or a leaf_algo other than the
\* three dispatchable ids, the already-split grove ids included) ends in the
\* assertion failure and no variant's run is invoked.
C2_InvalidTupleAsserts ==
  (Dispatched /\ ~ValidTuple) => (AssertionFailed /\ runs = <<>>)

C2_Witness ==
  /\ outcome = "assert_leaf_algo"
  /\ params.leaf_algo = GROVE_PER_CLASS_FEW_CLASSES
  /\ params.n_items \in 1..4
  /\ runs = <<>>

C2_WitnessNItems ==
  /\ outcome = "assert_n_items"
  /\ params.leaf_algo \in ValidLeafAlgos
  /\ params.n_items = 5

\* C6: the invoked variant receives blockdim_x = FIL_TPB for unary,
\* categorical and many-class grove; for few-class grove it receives the
\* largest multiple of num_classes not exceeding FIL_TPB.
C6_BlockWidth ==
  \A j \in 1..Len(runs) :
    LET r == runs[j]
        b == r.params.blockdim_x
        nc == r.params.num_classes
    IN  IF r.leaf_algo = GROVE_PER_CLASS_FEW_CLASSES
          THEN /\ nc >= 1 /\ nc <= FIL_TPB
               /\ b > 0
               /\ b % nc = 0
               /\ b <= FIL_TPB
               /\ b + nc > FIL_TPB
          ELSE /\ r.leaf_algo \in {FLOAT_UNARY_BINARY, CATEGORICAL_LEAF,
                                   GROVE_PER_CLASS_MANY_CLASSES}
               /\ b = FIL_TPB

C6_Witness ==
  /\ Len(runs) = 1
  /\ runs[1].leaf_algo = GROVE_PER_CLASS_FEW_CLASSES
  /\ runs[1].params.num_classes = 3
  /\ runs[1].params.blockdim_x = 255

\* C7: a GROVE_PER_CLASS plan reaches the many-classes variant if and only if
\* num_classes > FIL_TPB and the few-classes variant otherwise, whatever the
\* caching flag, n_items, storage type and the other fields are.
C7_GroveSplit ==
  (params.leaf_algo = GROVE_PER_CLASS /\ Len(runs) > 0) =>
    \A j \in 1..Len(runs) :
      /\ (runs[j].leaf_algo = GROVE_PER_CLASS_MANY_CLASSES)
            <=> (params.num_classes > FIL_TPB)
      /\ (runs[j].leaf_algo = GROVE_PER_CLASS_FEW_CLASSES)
            <=> ~(params.num_classes > FIL_TPB)

C7_Witness ==
  /\ params.leaf_algo = GROVE_PER_CLASS
  /\ params.num_classes = FIL_TPB + 1
  /\ Len(runs) = 1
  /\ runs[1].leaf_algo = GROVE_PER_CLASS_MANY_CLASSES

C7_WitnessFew ==
  /\ params.leaf_algo = GROVE_PER_CLASS
  /\ params.num_classes = FIL_TPB
  /\ Len(runs) = 1
  /\ runs[1].leaf_algo = GROVE_PER_CLASS_FEW_CLASSES

FrameFields == {"num_classes", "num_cols", "predict_proba", "cols_in_shmem",
                "n_items", "max_shm", "shm_sz"}

RunAgrees(r) ==
  /\ r.params.cols_in_shmem = r.cols_in_shmem
  /\ r.params.leaf_algo = r.leaf_algo
  /\ r.params.n_items = r.n_items
  /\ r.leaf_algo # GROVE_PER_CLASS
  /\ r.storage_type = storage
  /\ \A f \in FrameFields : r.params[f] = params[f]

\* C10: the params a variant Func<C, L, N>::run receives has cols_in_shmem = C,
\* leaf_algo = L (the resolved id) and n_items = N; it differs from the
\* caller's params in no field other than leaf_algo and blockdim_x; and the
\* caller's params object is never changed by the dispatch.
C10_DispatchFrame ==
  /\ [](\A j \in 1..Len(runs) : RunAgrees(runs[j]))
  /\ [][params' = params]_vars

C10_Witness ==
  /\ Len(runs) = 1
  /\ params.leaf_algo = GROVE_PER_CLASS
  /\ runs[1].leaf_algo = GROVE_PER_CLASS_FEW_CLASSES
  /\ runs[1].n_items = 3
  /\ runs[1].params.blockdim_x # params.blockdim_x
  /\ runs[1].cols_in_shmem

----------------------------------------------------------------------------
(* Properties of the plan builder and cols_shmem_size (SpecPlan) *)

\* the footprint as the plan documents it: columns x 4 bytes x n_items when
\* caching, plus the accumulator buffer
DocFootprint(c, cols, n, acc) == (IF c THEN cols * 4 * n ELSE 0) + acc

\* C3: a returned plan never has a footprint above max_shm; when the cached
\* footprint at n_items = 4 overflows, a cached plan has the largest smaller
\* n_items that fits, and caching is off exactly when n_items = 1 does not fit.
C3_ShmemFit ==
  planStatus = "ok" =>
    /\ ssp.shm_sz = DocFootprint(ssp.cols_in_shmem, ssp.num_cols, ssp.n_items,
                                 accBytes)
    /\ ssp.shm_sz <= ssp.max_shm
    /\ ssp.n_items \in 1..4
    /\ (DocFootprint(TRUE, ssp.num_cols, 4, accBytes) > ssp.max_shm
          /\ ssp.cols_in_shmem) => ssp.n_items < 4
    /\ ssp.cols_in_shmem =>
         \A n \in (ssp.n_items + 1)..4 :
           DocFootprint(TRUE, ssp.num_cols, n, accBytes) > ssp.max_shm
    /\ ~ssp.cols_in_shmem <=>
         DocFootprint(TRUE, ssp.num_cols, 1, accBytes) > ssp.max_shm

C3_Witness ==
  /\ planStatus = "ok"
  /\ ssp.cols_in_shmem
  /\ ssp.n_items = 2
  /\ DocFootprint(TRUE, ssp.num_cols, 4, accBytes) > ssp.max_shm
  /\ DocFootprint(TRUE, ssp.num_cols, 3, accBytes) > ssp.max_shm

C3_WitnessUncached ==
  /\ planStatus = "ok"
  /\ ~ssp.cols_in_shmem
  /\ ssp.num_cols > 0

ColsBytesAsDocumented ==
  colsBytes.asked =>
    colsBytes.bytes = IF colsBytes.ssp.cols_in_shmem
                        THEN 4 * colsBytes.ssp.num_cols * colsBytes.ssp.n_items
                        ELSE 0

ColsAt(n) == cols_shmem_size([colsBytes.ssp EXCEPT !.n_items = n])

\* C9 as stated: cols_shmem_size() is 4 * num_cols * n_items when caching and
\* 0 otherwise, and for fixed num_cols a larger n_items in 1..4 strictly
\* increases it.
C9_StrictlyMonotonic ==
  /\ ColsBytesAsDocumented
  /\ colsBytes.asked =>
       \A a \in 1..4, b \in 1..4 : a < b => ColsAt(a) < ColsAt(b)

\* C9 amended: cols_shmem_size() is 4 * num_cols * n_items when caching and 0
\* otherwise; a larger n_items in 1..4 never decreases it, and strictly
\* increases it exactly when caching is on and num_cols > 0.
C9_Monotonic ==
  /\ ColsBytesAsDocumented
  /\ colsBytes.asked =>
       \A a \in 1..4, b \in 1..4 : a < b =>
         /\ ColsAt(a) <= ColsAt(b)
         /\ (ColsAt(a) < ColsAt(b)) <=>
              (colsBytes.ssp.cols_in_shmem /\ colsBytes.ssp.num_cols > 0)

C9_Witness ==
  /\ colsBytes.asked
  /\ colsBytes.ssp.cols_in_shmem
  /\ colsBytes.ssp.num_cols = 3
  /\ colsBytes.ssp.n_items = 2
  /\ colsBytes.bytes = 24

C9_WitnessUncached ==
  /\ colsBytes.asked
  /\ ~colsBytes.ssp.cols_in_shmem
  /\ colsBytes.ssp.num_cols > 0
  /\ colsBytes.bytes = 0

----------------------------------------------------------------------------
(* Properties of dense addressing (SpecDense) *)

InForest(i, k) ==
  /\ i \in 0..(dense.st.num_trees - 1)
  /\ k \in 0..(tree_num_nodes(dense.depth) - 1)

\* C8: dense_storage[i][k] is the node at offset i*tree_stride + k*node_pitch;
\* in the contiguous and the interleaved layout every (i, k) of the forest
\* maps into [0, forest_num_nodes(num_trees, depth)) and no other (i, k) of
\* the forest maps to the same offset.
C8_DenseAddressing ==
  access.done =>
    /\ access.offset = access.i * dense.st.tree_stride
                         + access.k * dense.st.node_pitch
    /\ access.offset >= 0
    /\ access.offset < forest_num_nodes(dense.st.num_trees, dense.depth)
    /\ \A i \in 0..(dense.st.num_trees - 1),
          k \in 0..(tree_num_nodes(dense.depth) - 1) :
         (<<i, k>> # <<access.i, access.k>>) =>
            (i * dense.st.tree_stride + k * dense.st.node_pitch)
               # access.offset

C8_Witness ==
  /\ access.done
  /\ dense.layout = "interleaved"
  /\ dense.st.num_trees = 3
  /\ dense.depth = 2
  /\ access.i = 2
  /\ access.k = 6
  /\ access.offset = 20

C8_WitnessContiguous ==
  /\ access.done
  /\ dense.layout = "contiguous"
  /\ dense.st.num_trees = 3
  /\ dense.depth = 2
  /\ access.i = 2
  /\ access.k = 6
  /\ access.offset = 20

----------------------------------------------------------------------------
(* Properties of the benchmark run (SpecBench) *)

\* C4: when the input is not row-major the run reports the row-major error
\* and issues no device work afterwards: no fit, no from_treelite, no predict.
C4_ColumnMajorRejected ==
  (~bench.rowMajor /\ pc # "check_rowMajor") =>
    (errorMsg = ROW_MAJOR_ERROR /\ afterError = {})

\* C5: over a whole run every forest built by from_treelite is passed to
\* ML::fil::free exactly once, none is freed twice, and no predict is issued
\* against a freed or never-constructed forest.
C5_ReleasedExactlyOnce ==
  /\ ~badPredict
  /\ \A f \in 1..constructed :
       Cardinality({j \in 1..Len(freed) : freed[j] = f}) <= 1
  /\ pc = "done" =>
       \A f \in 1..constructed :
         Cardinality({j \in 1..Len(freed) : freed[j] = f}) = 1

====
